---- MODULE Spec2Model ----
(***************************************************************************)
(* Model of the Playwright test actor: the orchestration in src/main.ts    *)
(* (run the tests, store artifacts in the key-value store, stage the       *)
(* report attachments, push the tabular records) and the test-evidence     *)
(* correlation pipeline it calls (collectAttachmentPaths and               *)
(* transformToTabular of ./transform).                                     *)
(***************************************************************************)
EXTENDS Integers, Sequences, FiniteSets, TLC

\* ------------------------------------------------------------------------
\* Bounds of the model
\* ------------------------------------------------------------------------
MaxAtt == 2
MaxOutcomes == 2
MaxUploads == 3
MaxDepth == 2
RunDepth == 1
WalkOutcomes == 3
RerunOutcomes == 1
MaxRuns == 2
OrderOutcomes == 2
OrderUploads == 2
MaxProjections == 2

\* ------------------------------------------------------------------------
\* The report document (input)
\* ------------------------------------------------------------------------
SuiteTitles == {"Login", "Patient Search"}
SpecTitles == {"finds patient"}
Projects == {"chromium"}
Statuses == {"passed", "failed"}
NoTitle == "<no title>"
Absent == "<absent>"

\* Raw attachment descriptors of an attempt: a name, the file that holds the
\* bytes, an optional content type.
RawAttachments ==
    { [name |-> "screenshot.png", path |-> "test-results/screenshot.png", contentType |-> Absent],
      [name |-> "trace.zip", path |-> "test-results/trace.zip", contentType |-> "application/zip"] }

Min(a, b) == IF a < b THEN a ELSE b

\* The attempts of a test case: k results holding m attachments in all, at
\* most MaxAtt each; an attempt is retried only when it failed.
RECURSIVE ResultSeqs(_, _, _)
ResultSeqs(St, k, m) ==
    IF k = 0 THEN (IF m = 0 THEN {<<>>} ELSE {})
    ELSE UNION { { <<r>> \o rest :
                     r \in [status : IF k = 1 THEN St ELSE {"failed"},
                            attachments : [1..j -> RawAttachments]],
                     rest \in ResultSeqs(St, k - 1, m - j) }
                 : j \in 0..Min(m, MaxAtt) }

\* A test case (one project) with k attempts and m attachments.
Tests(St, k, m) == [projectName : Projects, results : ResultSeqs(St, k, m)]

RECURSIVE TestSeqs(_, _, _)
TestSeqs(St, k, m) ==
    IF k = 0 THEN (IF m = 0 THEN {<<>>} ELSE {})
    ELSE UNION { { <<t>> \o rest : t \in Tests(St, j, i), rest \in TestSeqs(St, k - j, m - i) }
                 : j \in 1..k, i \in 0..m }

SpecNodes(St, k, m) == [kind : {"spec"}, title : SpecTitles, tests : TestSeqs(St, k, m)]

\* Nodes of depth at most d that hold exactly k attempts and m attachments,
\* with suite titles from T (NoTitle among them: a malformed suite); a suite's
\* children are suites and specs in one ordered sequence.
RECURSIVE Nodes(_, _, _, _, _), ChildSeqs(_, _, _, _, _)
Nodes(T, St, d, k, m) ==
    SpecNodes(St, k, m) \cup
    (IF d = 0 THEN {}
     ELSE [kind : {"suite"}, title : T, children : ChildSeqs(T, St, d - 1, k, m)])

ChildSeqs(T, St, d, k, m) ==
    IF k = 0 THEN (IF m = 0 THEN {<<>>} ELSE {})
    ELSE UNION { { <<c>> \o rest : c \in Nodes(T, St, d, j, i), rest \in ChildSeqs(T, St, d, k - j, m - i) }
                 : j \in 1..k, i \in 0..m }

SuiteNodes(T, St, d, k, m) == { n \in Nodes(T, St, d, k, m) : n.kind = "suite" }

RECURSIVE RootSeqs(_, _, _, _, _)
RootSeqs(T, St, d, k, m) ==
    IF k = 0 THEN (IF m = 0 THEN {<<>>} ELSE {})
    ELSE UNION { { <<c>> \o rest : c \in SuiteNodes(T, St, d, j, i), rest \in RootSeqs(T, St, d, k - j, m - i) }
                 : j \in 1..k, i \in 0..m }

\* The reports of depth at most d with at most n attempts and u attachments,
\* the last attempt of a test case ending in one of St.
ReportsOf(T, St, d, n, u) ==
    UNION { [suites : RootSeqs(T, St, d, k, m)] : k \in 0..n, m \in 0..u }

\* ------------------------------------------------------------------------
\* ReportWalker, AttachmentExtractor, TabularProjector (./transform)
\* ------------------------------------------------------------------------
RECURSIVE Flatten(_)
Flatten(ss) == IF ss = <<>> THEN <<>> ELSE Head(ss) \o Flatten(Tail(ss))

\* A suite node without a title anywhere in the tree makes the report malformed.
RECURSIVE MalformedNode(_)
MalformedNode(n) ==
    /\ n.kind = "suite"
    /\ \/ n.title = NoTitle
       \/ \E i \in 1..Len(n.children) : MalformedNode(n.children[i])

Malformed(r) == \E i \in 1..Len(r.suites) : MalformedNode(r.suites[i])

\* Variant: only the last attempt of a test case is reported.
TestOutcomes_LastAttempt(path, specTitle, t) ==
    [a \in 1..(IF Len(t.results) = 0 THEN 0 ELSE 1) |->
        [suitePath |-> path,
         specTitle |-> specTitle,
         projectName |-> t.projectName,
         attemptIndex |-> Len(t.results) - 1,
         status |-> t.results[Len(t.results)].status,
         rawAttachments |-> t.results[Len(t.results)].attachments]]

\* Variant: the attempts are numbered from 1.
TestOutcomes_OneBased(path, specTitle, t) ==
    [a \in 1..Len(t.results) |->
        [suitePath |-> path,
         specTitle |-> specTitle,
         projectName |-> t.projectName,
         attemptIndex |-> a,
         status |-> t.results[a].status,
         rawAttachments |-> t.results[a].attachments]]

\* The outcomes of one test case: one per attempt, attemptIndex from 0.
TestOutcomes(path, specTitle, t) ==
    [a \in 1..Len(t.results) |->
        [suitePath |-> path,
         specTitle |-> specTitle,
         projectName |-> t.projectName,
         attemptIndex |-> a - 1,
         status |-> t.results[a].status,
         rawAttachments |-> t.results[a].attachments]]

\* Variant: the children of a suite are visited last first.
RECURSIVE WalkNode_Reversed(_, _)
WalkNode_Reversed(n, path) ==
    IF n.kind = "spec"
    THEN Flatten([i \in 1..Len(n.tests) |-> TestOutcomes(path, n.title, n.tests[i])])
    ELSE Flatten([i \in 1..Len(n.children) |->
                    WalkNode_Reversed(n.children[Len(n.children) + 1 - i], Append(path, n.title))])

\* Variant: the spec's own title ends the path.
RECURSIVE WalkNode_WithSpecTitle(_, _)
WalkNode_WithSpecTitle(n, path) ==
    IF n.kind = "spec"
    THEN Flatten([i \in 1..Len(n.tests) |->
                    TestOutcomes(Append(path, n.title), n.title, n.tests[i])])
    ELSE Flatten([i \in 1..Len(n.children) |->
                    WalkNode_WithSpecTitle(n.children[i], Append(path, n.title))])

\* Depth-first, children in their given order; path holds the ancestor titles.
RECURSIVE WalkNode(_, _)
WalkNode(n, path) ==
    IF n.kind = "spec"
    THEN Flatten([i \in 1..Len(n.tests) |-> TestOutcomes(path, n.title, n.tests[i])])
    ELSE Flatten([i \in 1..Len(n.children) |-> WalkNode(n.children[i], Append(path, n.title))])

walk(r) == Flatten([i \in 1..Len(r.suites) |-> WalkNode(r.suites[i], <<>>)])

\* How many of the first i raw attachments of the outcome carry the i-th's name.
Occurrence(atts, i) == Cardinality({ j \in 1..i : atts[j].name = atts[i].name })

\* The key of the i-th raw attachment of an outcome: the identifying fields in
\* order, then a suffix from the second occurrence of a name on.
ArtifactKey(o, i) ==
    o.suitePath
    \o <<o.specTitle, o.projectName, ToString(o.attemptIndex), o.rawAttachments[i].name>>
    \o (IF Occurrence(o.rawAttachments, i) > 1
        THEN << "#" \o ToString(Occurrence(o.rawAttachments, i)) >>
        ELSE <<>>)

\* A name cut at its dots.
Segments(name) ==
    CASE name = "screenshot.png" -> <<"screenshot", "png">>
      [] name = "trace.zip" -> <<"trace", "zip">>
      [] name = "video.webm" -> <<"video", "webm">>
      [] name = "results.json" -> <<"results", "json">>
      [] name = "notes.txt" -> <<"notes", "txt">>
      [] name = "trace.tar.gz" -> <<"trace", "tar", "gz">>
      [] OTHER -> <<name>>

\* The extension of a name (the text after its last dot), none without a dot.
Extension(name) ==
    IF Len(Segments(name)) > 1 THEN Segments(name)[Len(Segments(name))] ELSE Absent

InferContentType(att) ==
    IF att.contentType # Absent THEN att.contentType
    ELSE CASE Extension(att.name) = "png" -> "image/png"
           [] Extension(att.name) = "webm" -> "video/webm"
           [] Extension(att.name) = "zip" -> "application/zip"
           [] Extension(att.name) = "json" -> "application/json"
           [] OTHER -> "application/octet-stream"

extract(o) ==
    [i \in 1..Len(o.rawAttachments) |->
        [name |-> o.rawAttachments[i].name,
         path |-> o.rawAttachments[i].path,
         key |-> ArtifactKey(o, i),
         type |-> InferContentType(o.rawAttachments[i])]]

\* Every attachment of the report with its key, in walk order.
collectAttachmentPaths(r) ==
    LET os == walk(r) IN Flatten([i \in 1..Len(os) |-> extract(os[i])])

\* The uploaded entry for key k among the links ls.
Uploaded(ls, k) == { l \in ls : l.key = k }

\* The indices of S in increasing order.
RECURSIVE InOrder(_)
InOrder(S) ==
    IF S = {} THEN <<>>
    ELSE LET m == CHOOSE x \in S : \A y \in S : x <= y
         IN <<m>> \o InOrder(S \ {m})

\* One outcome joined with the links by key: the record and the keys missed.
ProjectOutcome(o, ls) ==
    LET n == Len(o.rawAttachments)
        Found(i) == Uploaded(ls, ArtifactKey(o, i)) # {}
        hit == InOrder({ i \in 1..n : Found(i) })
        miss == InOrder({ i \in 1..n : ~Found(i) })
        Entry(i) == LET l == CHOOSE l \in Uploaded(ls, ArtifactKey(o, i)) : TRUE
                    IN [name |-> o.rawAttachments[i].name, url |-> l.url, contentType |-> l.type]
    IN [record |-> [suitePath |-> o.suitePath,
                    specTitle |-> o.specTitle,
                    projectName |-> o.projectName,
                    attemptIndex |-> o.attemptIndex,
                    status |-> o.status,
                    artifacts |-> [j \in 1..Len(hit) |-> Entry(hit[j])]],
        warnings |-> [j \in 1..Len(miss) |-> ArtifactKey(o, miss[j])]]

project(os, ls) ==
    [records |-> [i \in 1..Len(os) |-> ProjectOutcome(os[i], ls).record],
     warnings |-> Flatten([i \in 1..Len(os) |-> ProjectOutcome(os[i], ls).warnings])]

transformToTabular(r, ls) == project(walk(r), ls).records

\* ------------------------------------------------------------------------
\* The run of the actor (src/main.ts), from the point where the test process
\* has returned: the storage of the artifacts and of the tabular records
\* ------------------------------------------------------------------------
KvsId == "default"
\* The two screenshot file names for a run id.
ScreenshotNames(id) == <<"patient-details-" \o id \o ".png", "error-state-" \o id \o ".png">>
ScreenshotFiles == <<"patient-details-test.png", "error-state-test.png">>
ReportFile == "playwright-report/index.html"
VideoDir == "videos"
VideoFile == "recording.webm"
SecondVideoFile == "retry.webm"
SecondVideo == "videos/retry.webm"
TestResultsFile == "test-results.json"
AttachmentFiles == { a.path : a \in RawAttachments }

\* The files the test run may have left in the working directory.
Files == { ScreenshotFiles[1], ScreenshotFiles[2], ReportFile, VideoDir, TestResultsFile }
             \cup AttachmentFiles

\* The working directories a run of the pipeline starts from.
RunFs == { {ReportFile, TestResultsFile} \cup AttachmentFiles,
           {ReportFile, TestResultsFile, "test-results/trace.zip"},
           Files }

\* a || b: b when a is undefined or the empty string.
Or(a, b) == IF a # Absent /\ a # "" THEN a ELSE b

\* No variable of the three is set; no credential is given in the input.
NoEnv == [EMAIL |-> Absent, PASSWORD |-> Absent, ACTOR_RUN_ID |-> Absent]
NoInput == [email |-> Absent, password |-> Absent]
NotLaunched == [launched |-> FALSE]

\* The generated test before its first locator strategy has run.
NotStarted == [fn |-> 1, strategy |-> 1, attempts |-> <<>>, error |-> Absent]

\* Variant: the credential of the input goes before the one of process.env.
ChildEnv_InputFirst(e, inp) ==
    [EMAIL |-> Or(Or(inp.email, Or(e.EMAIL, "")), ""),
     PASSWORD |-> Or(Or(inp.password, Or(e.PASSWORD, "")), ""),
     ACTOR_RUN_ID |-> Or(e.ACTOR_RUN_ID, "local-run")]

\* The environment execSync hands the test process: process.env, over it the
\* envVars of the call (EMAIL: input.email || '', ..., ACTOR_RUN_ID: runId),
\* over those EMAIL: email || '' and PASSWORD: password || '', where email is
\* process.env.EMAIL || envVars.EMAIL.
ChildEnv(e, inp) ==
    [EMAIL |-> Or(Or(e.EMAIL, Or(inp.email, "")), ""),
     PASSWORD |-> Or(Or(e.PASSWORD, Or(inp.password, "")), ""),
     ACTOR_RUN_ID |-> Or(e.ACTOR_RUN_ID, "local-run")]

VARIABLES
    report,     \* the parsed content of test-results.json
    fs,         \* the files present in the working directory
    pc,         \* the position of the main async function
    kvs,        \* the key-value store: the acknowledged puts
    paths,      \* the attachments collected from the report
    task,       \* the state of each upload callback of the Promise.all
    links,      \* the url each callback has returned (empty before)
    dataset,    \* the items pushed to the dataset, in order
    log,        \* the warnings and errors logged
    outcomes,   \* the outcomes the walker has emitted so far
    run,        \* the number of the run of the actor over this report
    issued,     \* per staged run: the keys derived and the keys put under
    acked,      \* the uploads of this run in the order the store acknowledged them
    TEST_RESULTS, \* global.__TEST_RESULTS__ as the actor's process (main) and the
                \* test process (test) each hold it: a global per process
    env,        \* process.env of the actor: EMAIL, PASSWORD, ACTOR_RUN_ID
    input,      \* the actor input: email, password
    child,      \* the environment the test process was launched with
    version,    \* which version of the actor runs: main.ts or the earlier one
    test        \* the generated test inside the test process: the resolver it is
                \* in, the strategy it is at, the attempts made, the error raised

vars == <<report, fs, pc, kvs, paths, task, links, dataset, log, outcomes, run, issued, acked, TEST_RESULTS, env, input, child, version, test>>

\* Variant: the url names the store but not the record.
Url_NoKey(storeId, key) ==
    <<"https://api.apify.com/v2/key-value-stores/", storeId, "/records/">>

Url(storeId, key) ==
    <<"https://api.apify.com/v2/key-value-stores/", storeId, "/records/">> \o key

\* kvs.setValue acknowledged: the record under the key is replaced.
SetValue(store, key, contentType) ==
    { r \in store : r.key # key } \cup { [key |-> key, contentType |-> contentType] }

Logged(level, msg) == Append(log, [level |-> level, msg |-> msg])

\* Variant: only a rejected put rejects the callback's promise.
Rejected_PutOnly(s) == s = "putError"

\* The callback's promise is rejected: readFileSync threw inside the async
\* callback, or the awaited setValue was rejected.
Rejected(s) == s \in {"readError", "putError"}

\* Variant: the wait ends with the first callback that returns (Promise.any).
AllFulfilled_Any(t) == \E i \in DOMAIN t : t[i] = "fulfilled"

SomeRejected(t) == \E i \in DOMAIN t : Rejected(t[i])
AllFulfilled(t) == \A i \in DOMAIN t : t[i] = "fulfilled"

Init ==
    /\ report \in ReportsOf({"Login", NoTitle}, Statuses, RunDepth, MaxOutcomes, MaxUploads)
    /\ fs \in RunFs
    /\ pc = "screenshot1"
    /\ kvs = {}
    /\ paths = <<>>
    /\ task = <<>>
    /\ links = <<>>
    /\ dataset = <<>>
    /\ log = <<>>
    /\ outcomes = <<>>
    /\ run = 1
    /\ issued = <<>>
    /\ acked = <<>>
    /\ TEST_RESULTS = [main |-> Absent, test |-> Absent]
    /\ env = NoEnv
    /\ input = NoInput
    /\ child = ChildEnv(NoEnv, NoInput)
    /\ version = "main.ts"
    /\ test = NotStarted

\* const screenshotFiles: the names built from process.env.ACTOR_RUN_ID || 'test',
\* looked for in __dirname itself.
screenshotFiles == ScreenshotNames(Or(env.ACTOR_RUN_ID, "test"))

\* One turn of the loop over screenshotFiles: the file, when present, is read
\* and stored; a rejected setValue lands in the outer catch.
StoreScreenshot(i) ==
    /\ pc = IF i = 1 THEN "screenshot1" ELSE "screenshot2"
    /\ IF screenshotFiles[i] \in fs
       THEN \/ /\ kvs' = SetValue(kvs, <<screenshotFiles[i]>>, "image/png")
               /\ pc' = IF i = 1 THEN "screenshot2" ELSE "htmlReport"
               /\ log' = log
            \/ /\ kvs' = kvs
               /\ pc' = "exit"
               /\ log' = Logged("error", "Error handling storage")
       ELSE /\ kvs' = kvs
            /\ pc' = IF i = 1 THEN "screenshot2" ELSE "htmlReport"
            /\ log' = log
    /\ UNCHANGED <<report, fs, paths, task, links, dataset, outcomes, run, issued, acked, TEST_RESULTS, env, input, child, version, test>>

\* The HTML report, when present, is stored under report.html.
StoreHtmlReport ==
    /\ pc = "htmlReport"
    /\ IF ReportFile \in fs
       THEN \/ /\ kvs' = SetValue(kvs, <<"report.html">>, "text/html")
               /\ pc' = "videos"
               /\ log' = log
            \/ /\ kvs' = kvs
               /\ pc' = "exit"
               /\ log' = Logged("error", "Error handling storage")
       ELSE /\ kvs' = kvs
            /\ pc' = "videos"
            /\ log' = log
    /\ UNCHANGED <<report, fs, paths, task, links, dataset, outcomes, run, issued, acked, TEST_RESULTS, env, input, child, version, test>>

\* fs.readdirSync(VIDEO_DIR) filtered by .webm: the recordings in the video
\* directory, in directory order.
VideoFiles(files) ==
    IF SecondVideo \in files THEN <<VideoFile, SecondVideoFile>> ELSE <<VideoFile>>

\* The store after the first n of the videos vs have been stored.
RECURSIVE StoredVideos(_, _, _)
StoredVideos(store, vs, n) ==
    IF n = 0 THEN store
    ELSE SetValue(StoredVideos(store, vs, n - 1), <<"video-" \o vs[n]>>, "video/webm")

\* Variant: the video loop has a try/catch of its own, and the steps after it
\* run whatever happened to the videos.
StoreVideos_OwnCatch ==
    /\ pc = "videos"
    /\ IF VideoDir \in fs
       THEN \E n \in 0..Len(VideoFiles(fs)) :
               /\ kvs' = StoredVideos(kvs, VideoFiles(fs), n)
               /\ pc' = "attachments"
               /\ log' = IF n = Len(VideoFiles(fs)) THEN log
                         ELSE Logged("error", "Error handling storage")
       ELSE /\ kvs' = kvs
            /\ pc' = "attachments"
            /\ log' = Logged("warning", "Video directory not found")
    /\ UNCHANGED <<report, fs, paths, task, links, dataset, outcomes, run, issued, acked, TEST_RESULTS, env, input, child, version, test>>

\* The .webm files of the video directory are stored one after the other; the
\* first rejected setValue lands in the outer catch, with the videos before
\* it stored and the ones after it not. A missing directory is a warning
\* only.
StoreVideos ==
    /\ pc = "videos"
    /\ IF VideoDir \in fs
       THEN \E n \in 0..Len(VideoFiles(fs)) :
               /\ kvs' = StoredVideos(kvs, VideoFiles(fs), n)
               /\ IF n = Len(VideoFiles(fs))
                  THEN pc' = "attachments" /\ log' = log
                  ELSE pc' = "exit" /\ log' = Logged("error", "Error handling storage")
       ELSE /\ kvs' = kvs
            /\ pc' = "attachments"
            /\ log' = Logged("warning", "Video directory not found")
    /\ UNCHANGED <<report, fs, paths, task, links, dataset, outcomes, run, issued, acked, TEST_RESULTS, env, input, child, version, test>>

\* Variant: the key embeds a value of the run (as a timestamp would).
PutKey_Stamped(a) == a.key \o <<ToString(run)>>

\* The key the callback puts under: const key = attachment.key.
PutKey(a) == a.key

\* What a run derives and issues when it stages: the key of every attachment
\* and the keys setValue was called with.
Issue(ps, ts) ==
    [keys |-> [i \in DOMAIN ps |-> ps[i].key],
     puts |-> { PutKey(ps[i]) : i \in { j \in DOMAIN ps : ts[j] # "readError" } }]

\* Variant: the callback does not await setValue and returns at once.
Started_Unawaited(a, files) == IF a.path \in files THEN "fulfilled" ELSE "readError"

\* The state of the callback of attachment a once paths.map has returned:
\* readFileSync threw, or setValue has been called and is awaited.
Started(a, files) == IF a.path \in files THEN "pending" ELSE "readError"

\* Variant: the uploads are started from whatever the report yields, a
\* malformed one included.
StageAttachments_NoValidate ==
    /\ pc = "attachments"
    /\ IF TestResultsFile \notin fs
       THEN /\ pc' = "exit"
            /\ log' = Logged("warning", "Test results file not found")
            /\ UNCHANGED <<paths, task, links, issued>>
       ELSE /\ paths' = collectAttachmentPaths(report)
            /\ task' = [i \in 1..Len(paths') |-> Started(paths'[i], fs)]
            /\ links' = [i \in 1..Len(paths') |-> <<>>]
            /\ issued' = Append(issued, Issue(paths', task'))
            /\ pc' = "await"
            /\ log' = log
    /\ UNCHANGED <<report, fs, kvs, dataset, outcomes, run, acked, TEST_RESULTS, env, input, child, version, test>>

\* The report is parsed, the attachments collected and one upload callback
\* started per attachment (paths.map runs them all before the first await).
StageAttachments ==
    /\ pc = "attachments"
    /\ version = "main.ts"
    /\ IF TestResultsFile \notin fs
       THEN /\ pc' = "exit"
            /\ log' = Logged("warning", "Test results file not found")
            /\ UNCHANGED <<paths, task, links, issued>>
       ELSE IF Malformed(report)
       THEN /\ pc' = "exit"
            /\ log' = Logged("error", "Error processing test results")
            /\ UNCHANGED <<paths, task, links, issued>>
       ELSE /\ paths' = collectAttachmentPaths(report)
            /\ task' = [i \in 1..Len(paths') |-> Started(paths'[i], fs)]
            /\ links' = [i \in 1..Len(paths') |-> <<>>]
            /\ issued' = Append(issued, Issue(paths', task'))
            /\ pc' = "await"
            /\ log' = log
    /\ UNCHANGED <<report, fs, kvs, dataset, outcomes, run, acked, TEST_RESULTS, env, input, child, version, test>>

\* The continuation of a settled Promise.all runs before any further
\* completion is delivered.
Deliverable == pc # "done" /\ ~(pc = "await" /\ (SomeRejected(task) \/ AllFulfilled(task)))

\* Variant: setValue is called without the contentType option; the store
\* falls back on its default.
PutAck_DefaultType(i) ==
    /\ Deliverable
    /\ task[i] = "pending"
    /\ kvs' = SetValue(kvs, PutKey(paths[i]), "application/octet-stream")
    /\ links' = [links EXCEPT ![i] = Url(KvsId, PutKey(paths[i]))]
    /\ task' = [task EXCEPT ![i] = "fulfilled"]
    /\ acked' = Append(acked, i)
    /\ UNCHANGED <<report, fs, pc, paths, dataset, log, outcomes, run, issued, TEST_RESULTS, env, input, child, version, test>>

\* The store acknowledges the put of attachment i: its callback builds the
\* url and returns the link.
PutAck(i) ==
    /\ Deliverable
    /\ task[i] = "pending"
    /\ kvs' = SetValue(kvs, PutKey(paths[i]), paths[i].type)
    /\ links' = [links EXCEPT ![i] = Url(KvsId, PutKey(paths[i]))]
    /\ task' = [task EXCEPT ![i] = "fulfilled"]
    /\ acked' = Append(acked, i)
    /\ UNCHANGED <<report, fs, pc, paths, dataset, log, outcomes, run, issued, TEST_RESULTS, env, input, child, version, test>>

\* The store rejects the put of attachment i.
PutReject(i) ==
    /\ Deliverable
    /\ task[i] = "pending"
    /\ task' = [task EXCEPT ![i] = "putError"]
    /\ UNCHANGED <<report, fs, pc, kvs, paths, links, dataset, log, outcomes, run, issued, acked, TEST_RESULTS, env, input, child, version, test>>

\* Variant: the array of promises is handed on without the wait for the
\* callbacks still running.
FanInResolve_Early ==
    /\ pc = "await"
    /\ ~SomeRejected(task)
    /\ pc' = "push"
    /\ UNCHANGED <<report, fs, kvs, paths, task, links, dataset, log, outcomes, run, issued, acked, TEST_RESULTS, env, input, child, version, test>>

\* await Promise.all(...) resolves: every callback has returned its link.
FanInResolve ==
    /\ pc = "await"
    /\ AllFulfilled(task)
    /\ pc' = "push"
    /\ UNCHANGED <<report, fs, kvs, paths, task, links, dataset, log, outcomes, run, issued, acked, TEST_RESULTS, env, input, child, version, test>>

\* Variant: the rejection is logged and the records are projected from the
\* links there are (Promise.allSettled).
FanInReject_Proceed ==
    /\ pc = "await"
    /\ version = "main.ts"
    /\ SomeRejected(task)
    /\ \A i \in DOMAIN task : task[i] # "pending"
    /\ pc' = "push"
    /\ log' = Logged("error", "Error processing test results")
    /\ UNCHANGED <<report, fs, kvs, paths, task, links, dataset, outcomes, run, issued, acked, TEST_RESULTS, env, input, child, version, test>>

\* await Promise.all(...) rejects with the first rejection: the inner catch
\* logs it and the tabular records are skipped.
FanInReject ==
    /\ pc = "await"
    /\ version = "main.ts"
    /\ SomeRejected(task)
    /\ pc' = "exit"
    /\ log' = Logged("error", "Error processing test results")
    /\ UNCHANGED <<report, fs, kvs, paths, task, links, dataset, outcomes, run, issued, acked, TEST_RESULTS, env, input, child, version, test>>

\* Variant: the link is built without the attachment's fields (no spread).
Links_NoSpread ==
    { [name |-> paths[i].name, path |-> paths[i].path, key |-> <<>>,
       type |-> paths[i].type, url |-> links[i]] : i \in DOMAIN paths }

\* The links handed to transformToTabular: each attachment with its url.
Links == { [name |-> paths[i].name, path |-> paths[i].path, key |-> paths[i].key,
            type |-> paths[i].type, url |-> links[i]] : i \in DOMAIN paths }

\* Variant: the projection step also stores the records in the key-value
\* store.
PushTabular_Store ==
    /\ pc = "push"
    /\ dataset' = Append(dataset, [kind |-> "tabular",
                                   records |-> transformToTabular(report, Links)])
    /\ kvs' = SetValue(kvs, <<"results.json">>, "application/json")
    /\ pc' = "exit"
    /\ UNCHANGED <<report, fs, paths, task, links, log, outcomes, run, issued, acked, TEST_RESULTS, env, input, child, version, test>>

\* dataset.pushData(transformToTabular(jsonReport, links)); a rejected push
\* lands in the inner catch.
PushTabular ==
    /\ pc = "push"
    /\ version = "main.ts"
    /\ \/ /\ dataset' = Append(dataset, [kind |-> "tabular",
                                         records |-> transformToTabular(report, Links)])
          /\ log' = log
       \/ /\ dataset' = dataset
          /\ log' = Logged("error", "Error processing test results")
    /\ pc' = "exit"
    /\ UNCHANGED <<report, fs, kvs, paths, task, links, outcomes, run, issued, acked, TEST_RESULTS, env, input, child, version, test>>

\* Actor.exit(): the process ends; puts still in flight are abandoned.
Exit ==
    /\ pc = "exit"
    /\ pc' = "done"
    /\ UNCHANGED <<report, fs, kvs, paths, task, links, dataset, log, outcomes, run, issued, acked, TEST_RESULTS, env, input, child, version, test>>

Next ==
    \/ \E i \in 1..2 : StoreScreenshot(i)
    \/ StoreHtmlReport
    \/ StoreVideos
    \/ StageAttachments
    \/ \E i \in DOMAIN task : PutAck(i)
    \/ \E i \in DOMAIN task : PutReject(i)
    \/ FanInResolve
    \/ FanInReject
    \/ PushTabular
    \/ Exit

Spec == Init /\ [][Next]_vars

\* The steps of the main async function itself: the event loop runs its next
\* step whenever one is ready. When, and whether, the store settles a put is
\* the store's business: await Promise.all sets no limit on the wait.
MainStep ==
    \/ \E i \in 1..2 : StoreScreenshot(i)
    \/ StoreHtmlReport
    \/ StoreVideos
    \/ StageAttachments
    \/ FanInResolve
    \/ FanInReject
    \/ PushTabular
    \/ Exit

LiveSpec == Init /\ [][Next]_vars /\ WF_vars(MainStep)

\* ------------------------------------------------------------------------
\* The storage phase over working directories with files missing
\* ------------------------------------------------------------------------
StorageFs ==
    { shots \cup html \cup videos \cup results \cup atts :
        shots \in {{}, {ScreenshotFiles[1]}},
        html \in {{}, {ReportFile}},
        videos \in {{}, {VideoDir}, {VideoDir, SecondVideo}},
        results \in {{}, {TestResultsFile}},
        atts \in {AttachmentFiles, {"test-results/trace.zip"}} }

StorageInit ==
    /\ report \in ReportsOf({"Login"}, {"passed"}, RunDepth, RerunOutcomes, MaxUploads)
    /\ fs \in StorageFs
    /\ pc = "screenshot1"
    /\ kvs = {}
    /\ paths = <<>>
    /\ task = <<>>
    /\ links = <<>>
    /\ dataset = <<>>
    /\ log = <<>>
    /\ outcomes = <<>>
    /\ run = 1
    /\ issued = <<>>
    /\ acked = <<>>
    /\ TEST_RESULTS = [main |-> Absent, test |-> Absent]
    /\ env = NoEnv
    /\ input = NoInput
    /\ child = ChildEnv(NoEnv, NoInput)
    /\ version = "main.ts"
    /\ test = NotStarted

StorageSpec == StorageInit /\ [][Next]_vars

\* ------------------------------------------------------------------------
\* The actor run again over the same report
\* ------------------------------------------------------------------------
RerunInit ==
    /\ report \in ReportsOf({"Login", NoTitle}, Statuses, RunDepth, RerunOutcomes, MaxUploads)
    /\ fs \in RunFs
    /\ pc = "screenshot1"
    /\ kvs = {}
    /\ paths = <<>>
    /\ task = <<>>
    /\ links = <<>>
    /\ dataset = <<>>
    /\ log = <<>>
    /\ outcomes = <<>>
    /\ run = 1
    /\ issued = <<>>
    /\ acked = <<>>
    /\ TEST_RESULTS = [main |-> Absent, test |-> Absent]
    /\ env = NoEnv
    /\ input = NoInput
    /\ child = ChildEnv(NoEnv, NoInput)
    /\ version = "main.ts"
    /\ test = NotStarted

\* A new process runs the actor over the same working directory: nothing of
\* the previous process is left but the storages, kept or purged.
Rerun ==
    /\ pc = "done"
    /\ run < MaxRuns
    /\ run' = run + 1
    /\ pc' = "screenshot1"
    /\ paths' = <<>>
    /\ task' = <<>>
    /\ links' = <<>>
    /\ log' = <<>>
    /\ acked' = <<>>
    /\ \/ kvs' = kvs /\ dataset' = dataset
       \/ kvs' = {} /\ dataset' = <<>>
    /\ UNCHANGED <<report, fs, outcomes, issued, TEST_RESULTS, env, input, child, version, test>>

RerunNext == Next \/ Rerun

RerunSpec == RerunInit /\ [][RerunNext]_vars

\* ------------------------------------------------------------------------
\* The actor from the start of the test run: runTests, the push of the
\* results the test collected, then the storage steps above (report and fs
\* hold what the test run leaves behind)
\* ------------------------------------------------------------------------
\* The object the test builds at its data-collection step.
TestResults == "testResults"

TestCodeFile == "tests/test.spec.ts"
ConfigFile == "playwright.config.ts"

\* What a test run leaves in the working directory besides its screenshots.
TestRunLeaves == { f \ {ScreenshotFiles[1], ScreenshotFiles[2]} : f \in RunFs }

\* Where the generated test writes its screenshots: test-results/ below its
\* working directory, the name built from its own ACTOR_RUN_ID || 'test'.
TestScreenshot(i) == "test-results/" \o ScreenshotNames(Or(child.ACTOR_RUN_ID, "test"))[i]

Environments ==
    [EMAIL : {Absent, "env-email"}, PASSWORD : {Absent, "env-password"},
     ACTOR_RUN_ID : {Absent, "run-1"}]
Inputs == [email : {Absent, "input-email"}, password : {Absent, "input-password"}]

ActorInit ==
    /\ report \in ReportsOf({"Login"}, {"passed"}, RunDepth, RerunOutcomes, MaxUploads)
    /\ fs = {}
    /\ pc = "storeTestCode"
    /\ kvs = {}
    /\ paths = <<>>
    /\ task = <<>>
    /\ links = <<>>
    /\ dataset = <<>>
    /\ log = <<>>
    /\ outcomes = <<>>
    /\ run = 1
    /\ issued = <<>>
    /\ acked = <<>>
    /\ TEST_RESULTS = [main |-> Absent, test |-> Absent]
    /\ env \in Environments
    /\ input \in Inputs
    /\ child = NotLaunched
    /\ version = "main.ts"
    /\ test = NotStarted

\* storeTestCode: the generated test is written to tests/test.spec.ts; a
\* failed write ends the main function (nothing catches it).
storeTestCode ==
    /\ pc = "storeTestCode"
    /\ \/ fs' = fs \cup {TestCodeFile} /\ pc' = "updateConfig"
       \/ fs' = fs /\ pc' = "crashed"
    /\ UNCHANGED <<report, kvs, paths, task, links, dataset, log, outcomes, run, issued, acked, TEST_RESULTS, env, input, child, version, test>>
\* Variant: the runner configuration is left as it was.
updateConfig_NotWritten ==
    /\ pc = "updateConfig"
    /\ pc' = "runTests"
    /\ UNCHANGED <<report, fs, kvs, paths, task, links, dataset, log, outcomes, run, issued, acked, TEST_RESULTS, env, input, child, version, test>>


\* updateConfig: playwright.config.ts is written.
updateConfig ==
    /\ pc = "updateConfig"
    /\ \/ fs' = fs \cup {ConfigFile} /\ pc' = "runTests"
       \/ fs' = fs /\ pc' = "crashed"
    /\ UNCHANGED <<report, kvs, paths, task, links, dataset, log, outcomes, run, issued, acked, TEST_RESULTS, env, input, child, version, test>>

\* runTests of main.ts up to the launch: a warning when the email or the
\* password is found neither in process.env nor in the input, then
\* execSync starts npx playwright test with the child environment and
\* blocks.
runTests ==
    /\ pc = "runTests"
    /\ version = "main.ts"
    /\ log' = IF Or(env.EMAIL, Or(input.email, "")) = "" \/ Or(env.PASSWORD, Or(input.password, "")) = ""
              THEN Logged("warning", "No credentials found in environment variables or input")
              ELSE log
    /\ child' = ChildEnv(env, input)
    /\ pc' = "testProcess"
    /\ UNCHANGED <<report, fs, kvs, paths, task, links, dataset, outcomes, run, issued, acked, TEST_RESULTS, env, input, version, test>>

\* Variant: runTests logs the failure of the test process and returns.
TestProcessExit_Swallowed ==
    /\ pc = "testProcess"
    /\ \E reached, passed, shot \in BOOLEAN : \E left \in TestRunLeaves :
          /\ passed => reached
          /\ TEST_RESULTS' = [TEST_RESULTS EXCEPT !.test = IF reached THEN TestResults ELSE Absent]
          /\ fs' = fs \cup left \cup (IF passed THEN {TestScreenshot(1)}
                                      ELSE IF shot THEN {TestScreenshot(2)} ELSE {})
          /\ IF passed
             THEN pc' = (IF version = "main.ts" THEN "results" ELSE "storeReport") /\ log' = log
             ELSE /\ pc' = (IF version = "main.ts" THEN "results" ELSE "storeReport")
                  /\ log' = Logged("error", "Error running tests")
    /\ UNCHANGED <<report, kvs, paths, task, links, dataset, outcomes, run, issued, acked, env, input, child, version, test>>

\* The test process runs and ends. The test assigns global.__TEST_RESULTS__
\* in its own process when it reaches the data-collection step, then takes
\* the patient-details screenshot; a test that fails may take the
\* error-state screenshot and rethrows. The run leaves its report, videos
\* and attachments. A failed run makes execSync throw: runTests logs and
\* rethrows, and the main function ends there.
TestProcessExit ==
    /\ pc = "testProcess"
    /\ \E reached, passed, shot \in BOOLEAN : \E left \in TestRunLeaves :
          /\ passed => reached
          /\ TEST_RESULTS' = [TEST_RESULTS EXCEPT !.test = IF reached THEN TestResults ELSE Absent]
          /\ fs' = fs \cup left \cup (IF passed THEN {TestScreenshot(1)}
                                      ELSE IF shot THEN {TestScreenshot(2)} ELSE {})
          /\ IF passed
             THEN pc' = (IF version = "main.ts" THEN "results" ELSE "storeReport") /\ log' = log
             ELSE pc' = "crashed" /\ log' = Logged("error", "Error running tests")
    /\ UNCHANGED <<report, kvs, paths, task, links, dataset, outcomes, run, issued, acked, env, input, child, version, test>>

\* if (global.__TEST_RESULTS__) { await dataset.pushData(...) }: the global
\* read is the one of the actor's own process. The push is outside the try
\* block: when it is rejected the main function ends.
StoreTestResults ==
    /\ pc = "results"
    /\ IF TEST_RESULTS.main # Absent
       THEN \/ /\ dataset' = Append(dataset, [kind |-> "results", records |-> <<TEST_RESULTS.main>>])
               /\ pc' = "screenshot1"
            \/ /\ dataset' = dataset
               /\ pc' = "crashed"
       ELSE /\ dataset' = dataset
            /\ pc' = "screenshot1"
    /\ UNCHANGED <<report, fs, kvs, paths, task, links, log, outcomes, run, issued, acked, TEST_RESULTS, env, input, child, version, test>>

ActorNext ==
    storeTestCode \/ updateConfig \/ runTests \/ TestProcessExit \/ StoreTestResults \/ Next

ActorSpec == ActorInit /\ [][ActorNext]_vars

\* ------------------------------------------------------------------------
\* The earlier version of the actor (src/unnamed/part_000): the same steps
\* with a credential gate in runTests and no try/catch around the storage
\* ------------------------------------------------------------------------
Timestamps == {"1700000000000", "1700000000001"}

\* runTests of the earlier version: EMAIL and PASSWORD must be set in
\* process.env or an error is thrown before execSync; the catch logs it and
\* rethrows. envVars carries no ACTOR_RUN_ID: the child keeps the actor's.
runTests_part000 ==
    /\ pc = "runTests"
    /\ version = "part_000"
    /\ IF Or(env.EMAIL, "") = "" \/ Or(env.PASSWORD, "") = ""
       THEN /\ log' = Logged("error", "Error running tests")
            /\ child' = child
            /\ pc' = "crashed"
       ELSE /\ log' = log
            /\ child' = [EMAIL |-> env.EMAIL, PASSWORD |-> env.PASSWORD,
                         ACTOR_RUN_ID |-> env.ACTOR_RUN_ID]
            /\ pc' = "testProcess"
    /\ UNCHANGED <<report, fs, kvs, paths, task, links, dataset, outcomes, run, issued, acked, TEST_RESULTS, env, input, version, test>>

\* kvs.setValue('report', fs.readFileSync(...)): nothing checks that the
\* file exists and nothing catches a failure.
StoreReport_part000 ==
    /\ pc = "storeReport"
    /\ IF ReportFile \in fs
       THEN \/ kvs' = SetValue(kvs, <<"report">>, "text/html") /\ pc' = "videos000"
            \/ kvs' = kvs /\ pc' = "crashed"
       ELSE kvs' = kvs /\ pc' = "crashed"
    /\ UNCHANGED <<report, fs, paths, task, links, dataset, log, outcomes, run, issued, acked, TEST_RESULTS, env, input, child, version, test>>

\* The videos, in a try/catch of their own; the key carries Date.now().
StoreVideos_part000 ==
    /\ pc = "videos000"
    /\ IF VideoDir \in fs
       THEN \/ \E t \in Timestamps :
                 /\ kvs' = SetValue(kvs, <<"video-" \o t \o "-" \o VideoFile>>, "video/webm")
                 /\ log' = log
            \/ /\ kvs' = kvs
               /\ log' = Logged("error", "Error handling video files")
       ELSE /\ kvs' = kvs
            /\ log' = Logged("warning", "Video directory not found")
    /\ pc' = "attachments"
    /\ UNCHANGED <<report, fs, paths, task, links, dataset, outcomes, run, issued, acked, TEST_RESULTS, env, input, child, version, test>>

\* The report is read without a check that it exists, parsed, and the upload
\* callbacks are started; a missing or malformed report ends the main
\* function.
StageAttachments_part000 ==
    /\ pc = "attachments"
    /\ version = "part_000"
    /\ IF TestResultsFile \notin fs \/ Malformed(report)
       THEN /\ pc' = "crashed"
            /\ UNCHANGED <<paths, task, links, issued>>
       ELSE /\ paths' = collectAttachmentPaths(report)
            /\ task' = [i \in 1..Len(paths') |-> Started(paths'[i], fs)]
            /\ links' = [i \in 1..Len(paths') |-> <<>>]
            /\ issued' = Append(issued, Issue(paths', task'))
            /\ pc' = "await"
    /\ UNCHANGED <<report, fs, kvs, dataset, log, outcomes, run, acked, TEST_RESULTS, env, input, child, version, test>>

\* await Promise.all(...) rejects and nothing catches it: the main function
\* ends without the push and without Actor.exit.
FanInReject_part000 ==
    /\ pc = "await"
    /\ version = "part_000"
    /\ SomeRejected(task)
    /\ pc' = "crashed"
    /\ UNCHANGED <<report, fs, kvs, paths, task, links, dataset, log, outcomes, run, issued, acked, TEST_RESULTS, env, input, child, version, test>>

\* dataset.pushData(transformToTabular(jsonReport, attachmentLinks)), then
\* Actor.exit; a rejected push ends the main function.
PushTabular_part000 ==
    /\ pc = "push"
    /\ version = "part_000"
    /\ \/ /\ dataset' = Append(dataset, [kind |-> "tabular",
                                         records |-> transformToTabular(report, Links)])
          /\ pc' = "exit"
       \/ /\ dataset' = dataset
          /\ pc' = "crashed"
    /\ UNCHANGED <<report, fs, kvs, paths, task, links, log, outcomes, run, issued, acked, TEST_RESULTS, env, input, child, version, test>>

VersionsInit ==
    /\ report \in ReportsOf({"Login", NoTitle}, {"passed"}, RunDepth, RerunOutcomes, MaxUploads)
    /\ fs = {}
    /\ pc = "storeTestCode"
    /\ kvs = {}
    /\ paths = <<>>
    /\ task = <<>>
    /\ links = <<>>
    /\ dataset = <<>>
    /\ log = <<>>
    /\ outcomes = <<>>
    /\ run = 1
    /\ issued = <<>>
    /\ acked = <<>>
    /\ TEST_RESULTS = [main |-> Absent, test |-> Absent]
    /\ env \in Environments
    /\ input \in Inputs
    /\ child = NotLaunched
    /\ version \in {"main.ts", "part_000"}
    /\ test = NotStarted

VersionsNext ==
    \/ ActorNext
    \/ runTests_part000
    \/ StoreReport_part000
    \/ StoreVideos_part000
    \/ StageAttachments_part000
    \/ FanInReject_part000
    \/ PushTabular_part000

VersionsSpec == VersionsInit /\ [][VersionsNext]_vars

\* ------------------------------------------------------------------------
\* The generated test: the functions that resolve a locator by trying a list
\* of strategies (src/unnamed/part_001, generateTestCode)
\* ------------------------------------------------------------------------
Resolvers == <<"findAndClickSignIn", "findAndFillLoginForm", "findAndClickSubmit",
               "waitForLoginSuccess", "findAndSearchPatient", "findAndClickPatient">>

\* The length of each function's strategies array.
Strategies == <<4, 3, 3, 3, 4, 5>>

\* The error each function throws after its loop.
AllFailedError == <<"All sign-in button strategies failed",
                    "All login form strategies failed",
                    "All submit button strategies failed",
                    "Could not verify successful login",
                    "All search strategies failed",
                    "All patient link strategies failed">>

\* What a strategy can do: return true, throw (a locator timed out), and for
\* the patient link strategies also return false (the text does not include
\* the patient's name).
StrategyResults(f) ==
    IF Resolvers[f] = "findAndClickPatient" THEN {"true", "false", "threw"}
    ELSE {"true", "threw"}

\* Variant: the loop goes on to the next strategy after one that succeeded.
Attempt_NoEarlyExit ==
    /\ pc = "testProcess"
    /\ test.error = Absent
    /\ test.fn \in DOMAIN Resolvers
    /\ \E r \in StrategyResults(test.fn) :
          LET made == Append(test.attempts,
                             [fn |-> Resolvers[test.fn], strategy |-> test.strategy, result |-> r])
          IN  IF test.strategy < Strategies[test.fn]
              THEN test' = [test EXCEPT !.strategy = @ + 1, !.attempts = made]
              ELSE IF r = "true"
              THEN test' = [fn |-> test.fn + 1, strategy |-> 1, attempts |-> made, error |-> Absent]
              ELSE test' = [test EXCEPT !.attempts = made, !.error = AllFailedError[test.fn]]
    /\ UNCHANGED <<report, fs, pc, kvs, paths, task, links, dataset, log, outcomes, run, issued, acked, TEST_RESULTS, env, input, child, version>>

\* One pass of `for (const strategy of strategies)`: the strategy is awaited
\* inside try; a truthy value returns from the function and the test goes on
\* to the next one; a falsy value or an exception moves to the next strategy;
\* after the last one the function throws its error, which ends the test.
Attempt ==
    /\ pc = "testProcess"
    /\ test.error = Absent
    /\ test.fn \in DOMAIN Resolvers
    /\ \E r \in StrategyResults(test.fn) :
          LET made == Append(test.attempts,
                             [fn |-> Resolvers[test.fn], strategy |-> test.strategy, result |-> r])
          IN  IF r = "true"
              THEN test' = [fn |-> test.fn + 1, strategy |-> 1, attempts |-> made, error |-> Absent]
              ELSE IF test.strategy < Strategies[test.fn]
              THEN test' = [test EXCEPT !.strategy = @ + 1, !.attempts = made]
              ELSE test' = [test EXCEPT !.attempts = made, !.error = AllFailedError[test.fn]]
    /\ UNCHANGED <<report, fs, pc, kvs, paths, task, links, dataset, log, outcomes, run, issued, acked, TEST_RESULTS, env, input, child, version>>

\* The test process just launched by runTests, with both credentials set.
LocatorInit ==
    /\ report \in ReportsOf({"Login"}, {"passed"}, RunDepth, RerunOutcomes, MaxUploads)
    /\ fs = {TestCodeFile, ConfigFile}
    /\ pc = "testProcess"
    /\ kvs = {}
    /\ paths = <<>>
    /\ task = <<>>
    /\ links = <<>>
    /\ dataset = <<>>
    /\ log = <<>>
    /\ outcomes = <<>>
    /\ run = 1
    /\ issued = <<>>
    /\ acked = <<>>
    /\ TEST_RESULTS = [main |-> Absent, test |-> Absent]
    /\ env = [EMAIL |-> "env-email", PASSWORD |-> "env-password", ACTOR_RUN_ID |-> "run-1"]
    /\ input = NoInput
    /\ child = ChildEnv(env, input)
    /\ version = "main.ts"
    /\ test = NotStarted

LocatorNext == Attempt

LocatorSpec == LocatorInit /\ [][LocatorNext]_vars

\* ------------------------------------------------------------------------
\* The actor run over nested suites: well-formed reports of depth up to
\* MaxDepth, every file of the working directory present
\* ------------------------------------------------------------------------
OrderInit ==
    /\ report \in ReportsOf(SuiteTitles, {"passed"}, MaxDepth, OrderOutcomes, OrderUploads)
    /\ fs = Files
    /\ pc = "screenshot1"
    /\ kvs = {}
    /\ paths = <<>>
    /\ task = <<>>
    /\ links = <<>>
    /\ dataset = <<>>
    /\ log = <<>>
    /\ outcomes = <<>>
    /\ run = 1
    /\ issued = <<>>
    /\ acked = <<>>
    /\ TEST_RESULTS = [main |-> Absent, test |-> Absent]
    /\ env = NoEnv
    /\ input = NoInput
    /\ child = ChildEnv(NoEnv, NoInput)
    /\ version = "main.ts"
    /\ test = NotStarted

OrderSpec == OrderInit /\ [][Next]_vars

\* ------------------------------------------------------------------------
\* The actor run over attachments of every kind of name, with and without a
\* declared content type: one suite, one spec, one attempt
\* ------------------------------------------------------------------------
AttachmentNames ==
    {"screenshot.png", "trace.zip", "video.webm", "results.json", "notes.txt",
     "trace.tar.gz", "README"}

TypedAttachments ==
    { [name |-> n, path |-> "test-results/" \o n, contentType |-> c] :
        n \in AttachmentNames, c \in {Absent, "text/plain"} }

TypeInit ==
    /\ \E j \in 0..MaxAtt : \E as \in [1..j -> TypedAttachments] :
          report = [suites |-> << [kind |-> "suite", title |-> "Login", children |->
                       << [kind |-> "spec", title |-> "finds patient", tests |->
                            << [projectName |-> "chromium", results |->
                                 << [status |-> "passed", attachments |-> as] >>] >>] >>] >>]
    /\ fs = {TestResultsFile} \cup { a.path : a \in TypedAttachments }
    /\ pc = "screenshot1"
    /\ kvs = {}
    /\ paths = <<>>
    /\ task = <<>>
    /\ links = <<>>
    /\ dataset = <<>>
    /\ log = <<>>
    /\ outcomes = <<>>
    /\ run = 1
    /\ issued = <<>>
    /\ acked = <<>>
    /\ TEST_RESULTS = [main |-> Absent, test |-> Absent]
    /\ env = NoEnv
    /\ input = NoInput
    /\ child = ChildEnv(NoEnv, NoInput)
    /\ version = "main.ts"
    /\ test = NotStarted

TypeSpec == TypeInit /\ [][Next]_vars

\* ------------------------------------------------------------------------
\* The walker on its own: walk(report) consumed one outcome at a time, over
\* deeper trees with more attempts and no attachments
\* ------------------------------------------------------------------------
WalkInit ==
    /\ report \in ReportsOf(SuiteTitles \cup {NoTitle}, {"passed"}, MaxDepth, WalkOutcomes, 0)
    /\ fs = {}
    /\ pc = "walk"
    /\ kvs = {}
    /\ paths = <<>>
    /\ task = <<>>
    /\ links = <<>>
    /\ dataset = <<>>
    /\ log = <<>>
    /\ outcomes = <<>>
    /\ run = 1
    /\ issued = <<>>
    /\ acked = <<>>
    /\ TEST_RESULTS = [main |-> Absent, test |-> Absent]
    /\ env = NoEnv
    /\ input = NoInput
    /\ child = ChildEnv(NoEnv, NoInput)
    /\ version = "main.ts"
    /\ test = NotStarted

\* A malformed report raises MalformedReportError; nothing is emitted.
WalkFail ==
    /\ pc = "walk"
    /\ Malformed(report)
    /\ pc' = "malformed"
    /\ UNCHANGED <<report, fs, kvs, paths, task, links, dataset, log, outcomes, run, issued, acked, TEST_RESULTS, env, input, child, version, test>>

\* The next outcome of the sequence is emitted.
WalkEmit ==
    /\ pc = "walk"
    /\ ~Malformed(report)
    /\ Len(outcomes) < Len(walk(report))
    /\ outcomes' = Append(outcomes, walk(report)[Len(outcomes) + 1])
    /\ UNCHANGED <<report, fs, pc, kvs, paths, task, links, dataset, log, run, issued, acked, TEST_RESULTS, env, input, child, version, test>>

\* The sequence is exhausted.
WalkFinish ==
    /\ pc = "walk"
    /\ ~Malformed(report)
    /\ Len(outcomes) = Len(walk(report))
    /\ pc' = "walked"
    /\ UNCHANGED <<report, fs, kvs, paths, task, links, dataset, log, outcomes, run, issued, acked, TEST_RESULTS, env, input, child, version, test>>

WalkNext == WalkFail \/ WalkEmit \/ WalkFinish

WalkSpec == WalkInit /\ [][WalkNext]_vars

\* ------------------------------------------------------------------------
\* The projector on its own: project applied, more than once, to the outcomes
\* of a report and the mapping left by a stage phase in which any of the
\* uploads may have failed
\* ------------------------------------------------------------------------
\* The uploaded mapping: the links of the uploads that succeeded.
UploadedLinks == { l \in Links : l.url # <<>> }

ProjectInit ==
    /\ report \in ReportsOf({"Login"}, Statuses, RunDepth, MaxOutcomes, MaxUploads)
    /\ fs = {}
    /\ pc = "project"
    /\ kvs = {}
    /\ outcomes = walk(report)
    /\ paths = collectAttachmentPaths(report)
    /\ task \in [DOMAIN paths -> {"fulfilled", "putError"}]
    /\ links = [i \in DOMAIN paths |->
                  IF task[i] = "fulfilled" THEN Url(KvsId, paths[i].key) ELSE <<>>]
    /\ dataset = <<>>
    /\ log = <<>>
    /\ run = 1
    /\ issued = <<>>
    /\ acked = <<>>
    /\ TEST_RESULTS = [main |-> Absent, test |-> Absent]
    /\ env = NoEnv
    /\ input = NoInput
    /\ child = ChildEnv(NoEnv, NoInput)
    /\ version = "main.ts"
    /\ test = NotStarted

\* Variant: an application uses up the links it has joined: the next one
\* no longer finds them.
Project_Consuming ==
    /\ pc = "project"
    /\ Len(dataset) < MaxProjections
    /\ dataset' = Append(dataset,
                      [kind |-> "projection",
                       records |-> project(outcomes, IF dataset = <<>> THEN UploadedLinks ELSE {}).records,
                       warnings |-> project(outcomes, IF dataset = <<>> THEN UploadedLinks ELSE {}).warnings])
    /\ UNCHANGED <<report, fs, pc, kvs, paths, task, links, log, outcomes, run, issued, acked, TEST_RESULTS, env, input, child, version, test>>

\* project(outcomes, uploaded) is applied; its result is kept.
Project ==
    /\ pc = "project"
    /\ Len(dataset) < MaxProjections
    /\ dataset' = Append(dataset,
                      [kind |-> "projection",
                       records |-> project(outcomes, UploadedLinks).records,
                       warnings |-> project(outcomes, UploadedLinks).warnings])
    /\ UNCHANGED <<report, fs, pc, kvs, paths, task, links, log, outcomes, run, issued, acked, TEST_RESULTS, env, input, child, version, test>>

ProjectFinish ==
    /\ pc = "project"
    /\ Len(dataset) = MaxProjections
    /\ pc' = "projected"
    /\ UNCHANGED <<report, fs, kvs, paths, task, links, dataset, log, outcomes, run, issued, acked, TEST_RESULTS, env, input, child, version, test>>

ProjectNext == Project \/ ProjectFinish

ProjectSpec == ProjectInit /\ [][ProjectNext]_vars

\* ------------------------------------------------------------------------
\* Properties
\* ------------------------------------------------------------------------
Tabular == { i \in DOMAIN dataset : dataset[i].kind = "tabular" }
Pending == { i \in DOMAIN task : task[i] = "pending" }
Failed == { i \in DOMAIN task : Rejected(task[i]) }
Fulfilled == { i \in DOMAIN task : task[i] = "fulfilled" }
StoredKeys == { r.key : r \in kvs }
EarlierKeys == { <<ScreenshotFiles[1]>>, <<ScreenshotFiles[2]>>, <<"report.html">>,
                 <<"video-" \o VideoFile>> }
RECURSIVE Sum(_)
Sum(ns) == IF ns = <<>> THEN 0 ELSE Head(ns) + Sum(Tail(ns))
ArtifactCount(rs) == Sum([k \in 1..Len(rs) |-> Len(rs[k].artifacts)])
StageErrors == { i \in DOMAIN log : log[i].msg = "Error processing test results" }

\* C1: the tabular records are projected and pushed only when every upload
\* task of the stage phase has settled: one task per collected attachment,
\* none of them pending.
C1_FanInBarrier ==
    (pc = "push" \/ Tabular # {}) =>
        /\ Len(task) = Len(collectAttachmentPaths(report))
        /\ Pending = {}

C1_Witness == Tabular # {} /\ Len(task) >= 2 /\ pc = "done"

\* C2: every artifact entry of a pushed record has a non-empty url, the url of
\* a key whose put the store has acknowledged; a callback holds a url only
\* once its put is acknowledged.
C2_UrlAfterAck ==
    /\ \A i \in DOMAIN links :
          links[i] # <<>> => task[i] = "fulfilled" /\ paths[i].key \in StoredKeys
    /\ \A p \in Tabular : \A k \in DOMAIN dataset[p].records :
          \A j \in DOMAIN dataset[p].records[k].artifacts :
             LET u == dataset[p].records[k].artifacts[j].url
             IN /\ u # <<>>
                /\ \E key \in StoredKeys : u = <<"https://api.apify.com/v2/key-value-stores/",
                                                 KvsId, "/records/">> \o key

C2_Witness ==
    \E p \in Tabular : \E k \in DOMAIN dataset[p].records :
        Len(dataset[p].records[k].artifacts) >= 1

\* C3 (as claimed): when an upload has failed, the artifacts whose uploads
\* succeeded still appear with their urls in the records of the run.
C3_UploadIsolation ==
    (pc = "done" /\ Failed # {}) =>
        \A i \in Fulfilled :
            \E p \in Tabular : \E k \in DOMAIN dataset[p].records :
                \E j \in DOMAIN dataset[p].records[k].artifacts :
                    dataset[p].records[k].artifacts[j].url = links[i]

\* C4 (as claimed): when exactly one of the N >= 2 uploads of the run fails, the
\* records hold one artifact entry per other attachment and one failure is
\* reported.
C4_PartialFailure ==
    (pc = "done" /\ Len(paths) >= 2 /\ Cardinality(Failed) = 1 /\ Pending = {}) =>
        /\ \E p \in Tabular : ArtifactCount(dataset[p].records) = Len(paths) - 1
        /\ Cardinality(StageErrors) = 1

\* C5 (as claimed): a record is emitted for every outcome even when uploads
\* failed, and for each outcome its artifact entries and its missing keys add
\* up to its attachments.
C5_MissingKeyPolicy ==
    (pc = "done" /\ Failed # {}) =>
        \E p \in Tabular :
            LET os == walk(report)
                got == { l \in Links : l.url # <<>> }
            IN /\ Len(dataset[p].records) = Len(os)
               /\ \A k \in DOMAIN os :
                     Len(dataset[p].records[k].artifacts)
                       + Len(ProjectOutcome(os[k], got).warnings)
                     = Len(os[k].rawAttachments)

\* C6 (as claimed): a run over a malformed report leaves the blob store
\* unchanged.
C6_StoreUnchangedOnMalformed == Malformed(report) => kvs = {}

\* C6 (amended): a run over a malformed report starts no attachment upload and
\* pushes no tabular record; the store holds at most the screenshots, the HTML
\* report and the video stored before the report was parsed.
C6_NoAttachmentUploadOnMalformed ==
    Malformed(report) =>
        /\ paths = <<>> /\ task = <<>>
        /\ StoredKeys \subseteq EarlierKeys
        /\ Tabular = {}

C6_Witness ==
    /\ Malformed(report)
    /\ pc = "done"
    /\ StageErrors # {}
    /\ <<"report.html">> \in StoredKeys

\* The leaf (test, attempt) pairs below a node, each with its place in the
\* tree and the identity its outcome must carry.
RECURSIVE Leaves(_, _, _)
Leaves(n, path, pos) ==
    IF n.kind = "spec"
    THEN UNION { { [pos |-> pos \o <<i, a>>,
                    id |-> <<path, n.title, n.tests[i].projectName, a - 1>>]
                   : a \in 1..Len(n.tests[i].results) } : i \in 1..Len(n.tests) }
    ELSE UNION { Leaves(n.children[i], Append(path, n.title), Append(pos, i))
                   : i \in 1..Len(n.children) }

ReportLeaves(r) == UNION { Leaves(r.suites[i], <<>>, <<i>>) : i \in 1..Len(r.suites) }

Identity(o) == <<o.suitePath, o.specTitle, o.projectName, o.attemptIndex>>

\* C7: the walker's sequence holds exactly one outcome per leaf (test,
\* attempt) pair of the tree: as many outcomes as pairs, and each identity as
\* often as there are pairs carrying it.
C7_OneOutcomePerLeaf ==
    pc = "walked" =>
        /\ Len(outcomes) = Cardinality(ReportLeaves(report))
        /\ \A l \in ReportLeaves(report) :
              Cardinality({ i \in DOMAIN outcomes : Identity(outcomes[i]) = l.id })
                = Cardinality({ m \in ReportLeaves(report) : m.id = l.id })

C7_Witness ==
    /\ pc = "walked"
    /\ Len(outcomes) = 3
    /\ \E i \in DOMAIN outcomes : Len(outcomes[i].suitePath) = 2
    /\ \E i \in DOMAIN outcomes : outcomes[i].attemptIndex = 1

\* C8: within one outcome any two attachments get distinct keys, the later of
\* two with the same name carrying the greater suffix, and the artifact
\* entries of a pushed record carry pairwise distinct urls.
C8_Disambiguation ==
    /\ task # <<>> =>
          \A k \in DOMAIN walk(report) :
             LET o == walk(report)[k]
                 n == Len(o.rawAttachments)
             IN \A i, j \in 1..n :
                   i < j =>
                     /\ ArtifactKey(o, i) # ArtifactKey(o, j)
                     /\ o.rawAttachments[i].name = o.rawAttachments[j].name =>
                           ArtifactKey(o, j)[Len(ArtifactKey(o, j))] =
                              "#" \o ToString(Cardinality(
                                  { m \in 1..j : o.rawAttachments[m].name
                                                   = o.rawAttachments[j].name }))
    /\ \A p \in Tabular : \A k \in DOMAIN dataset[p].records :
          LET as == dataset[p].records[k].artifacts
          IN \A i, j \in DOMAIN as : i # j => as[i].url # as[j].url

C8_Witness ==
    \E p \in Tabular : \E k \in DOMAIN dataset[p].records :
        LET as == dataset[p].records[k].artifacts
        IN Len(as) = 2 /\ as[1].name = as[2].name /\ as[1].url # as[2].url

C10_RoundTrip ==
    \A p \in Tabular :
        AllFulfilled(task) =>
            /\ Len(dataset[p].records) = Len(walk(report))
            /\ \A k \in DOMAIN walk(report) :
                  LET o == walk(report)[k]
                      as == dataset[p].records[k].artifacts
                  IN /\ Len(as) = Len(o.rawAttachments)
                     /\ \A j \in DOMAIN as :
                           as[j].name = o.rawAttachments[j].name /\ as[j].url # <<>>

C10_Witness ==
    /\ AllFulfilled(task)
    /\ \E p \in Tabular : \E k \in DOMAIN dataset[p].records :
          Len(dataset[p].records[k].artifacts) = 2

\* The attempts declared below a node, each with its place in the document
\* (the child, test and attempt numbers on the way down) and the outcome it
\* stands for.
RECURSIVE Attempts(_, _, _)
Attempts(n, path, pos) ==
    IF n.kind = "spec"
    THEN UNION { { [pos |-> pos \o <<i, a>>,
                    outcome |-> [suitePath |-> path,
                                 specTitle |-> n.title,
                                 projectName |-> n.tests[i].projectName,
                                 attemptIndex |-> a - 1,
                                 status |-> n.tests[i].results[a].status,
                                 rawAttachments |-> n.tests[i].results[a].attachments]]
                   : a \in 1..Len(n.tests[i].results) } : i \in 1..Len(n.tests) }
    ELSE UNION { Attempts(n.children[i], Append(path, n.title), Append(pos, i))
                   : i \in 1..Len(n.children) }

ReportAttempts(r) == UNION { Attempts(r.suites[i], <<>>, <<i>>) : i \in 1..Len(r.suites) }

\* p comes before q in the document: smaller at the first place they differ.
Before(p, q) ==
    \E i \in 1..Min(Len(p), Len(q)) :
        p[i] < q[i] /\ \A j \in 1..(i - 1) : p[j] = q[j]

\* The attempts of S in declaration order.
RECURSIVE Declared(_)
Declared(S) ==
    IF S = {} THEN <<>>
    ELSE LET f == CHOOSE x \in S : \A y \in S \ {x} : Before(x.pos, y.pos)
         IN <<f.outcome>> \o Declared(S \ {f})

\* C11: the walker's sequence is the report's attempts in declaration order
\* (depth-first, children as given), the attachments are collected in that
\* order, and the records pushed follow it one for one, whatever the order in
\* which the store acknowledged the puts.
C11_Ordering ==
    LET ex == Declared(ReportAttempts(report))
    IN /\ walk(report) = ex
       /\ task # <<>> =>
             [i \in DOMAIN paths |-> paths[i].key]
               = Flatten([k \in DOMAIN ex |->
                            [i \in DOMAIN ex[k].rawAttachments |-> ArtifactKey(ex[k], i)]])
       /\ \A p \in Tabular :
             /\ Len(dataset[p].records) = Len(ex)
             /\ \A k \in DOMAIN ex :
                   LET rec == dataset[p].records[k]
                   IN /\ <<rec.suitePath, rec.specTitle, rec.projectName, rec.attemptIndex>>
                           = Identity(ex[k])
                      /\ rec.status = ex[k].status
                      /\ [j \in DOMAIN rec.artifacts |-> rec.artifacts[j].name]
                           = [j \in DOMAIN ex[k].rawAttachments |-> ex[k].rawAttachments[j].name]

\* A suite nested before a sibling spec, the second upload acknowledged first.
C11_Witness ==
    /\ pc = "done"
    /\ acked = <<2, 1>>
    /\ \E p \in Tabular :
          /\ Len(dataset[p].records) = 2
          /\ Len(dataset[p].records[1].suitePath) = 2
          /\ Len(dataset[p].records[2].suitePath) = 1
          /\ Len(dataset[p].records[1].artifacts) = 1
          /\ Len(dataset[p].records[2].artifacts) = 1

\* C12 (as claimed): the wait for the upload tasks always ends and the run
\* terminates, even when the store never settles a put.
C12_BoundedFanIn == (pc = "await") ~> (pc = "done")

\* C13: the links change only when an upload callback completes, one entry
\* at a time, and never from the moment they are handed to the projector
\* (the push step) on.
C13_BuildThenFreeze ==
    [][ /\ (links' # links /\ pc # "attachments") =>
              \E i \in DOMAIN task :
                  /\ task[i] = "pending" /\ task'[i] = "fulfilled"
                  /\ links[i] = <<>> /\ links'[i] # <<>>
                  /\ \A j \in DOMAIN links : j # i => links'[j] = links[j]
        /\ (pc = "push" \/ Tabular # {}) => links' = links ]_vars

C13_Witness ==
    /\ pc = "done"
    /\ Tabular # {}
    /\ Len(links) = 3
    /\ \A i \in DOMAIN links : links[i] # <<>>

BeforePipeline == {"screenshot1", "screenshot2", "htmlReport", "videos"}

OtherKind(t, i) ==
    [t EXCEPT ![i] = IF t[i] = "readError" THEN "putError" ELSE "readError"]

\* C15: a failed read and a rejected put of the same attachment have the same
\* outcome. With either kind in place of the other the wait ends the same way,
\* and a run with a failed upload of either kind ends with the same records
\* (none) and the same single report of the failure.
C15_ReadAsUpload ==
    /\ \A i \in DOMAIN task :
          task[i] \in {"readError", "putError"} =>
             /\ SomeRejected(OtherKind(task, i)) = SomeRejected(task)
             /\ AllFulfilled(OtherKind(task, i)) = AllFulfilled(task)
    /\ (pc = "done" /\ \E i \in DOMAIN task : task[i] \in {"readError", "putError"}) =>
          /\ Tabular = {}
          /\ Cardinality(StageErrors) = 1
          /\ log[Len(log)] = [level |-> "error", msg |-> "Error processing test results"]

\* A run in which one upload failed on the read and another on the put.
C15_Witness ==
    /\ pc = "done"
    /\ \E i, j \in DOMAIN task : task[i] = "readError" /\ task[j] = "putError"
    /\ Tabular = {}
    /\ Cardinality(StageErrors) = 1

ByExtension ==
    [n \in AttachmentNames |->
        CASE n = "screenshot.png" -> "image/png"
          [] n = "video.webm" -> "video/webm"
          [] n = "trace.zip" -> "application/zip"
          [] n = "results.json" -> "application/json"
          [] n = "notes.txt" -> "application/octet-stream"
          [] n = "trace.tar.gz" -> "application/octet-stream"
          [] n = "README" -> "application/octet-stream"]

Prescribed(a) == IF a.contentType # Absent THEN a.contentType ELSE ByExtension[a.name]

\* C17: every attachment of the report is given a content type, the declared
\* one when there is one and the one of its extension (the default for any
\* other or none) otherwise; the put of the attachment is stored under that
\* type and the record's entry carries it.
C17_ContentTypePolicy ==
    LET atts == walk(report)[1].rawAttachments
    IN /\ \A i \in DOMAIN paths :
             /\ paths[i].type = Prescribed(atts[i])
             /\ task[i] = "fulfilled" =>
                   [key |-> paths[i].key, contentType |-> Prescribed(atts[i])] \in kvs
       /\ \A r \in kvs : r.key \notin EarlierKeys =>
             \E i \in DOMAIN paths :
                 r = [key |-> paths[i].key, contentType |-> Prescribed(atts[i])]
       /\ \A p \in Tabular :
             \A j \in DOMAIN dataset[p].records[1].artifacts :
                 dataset[p].records[1].artifacts[j].contentType = Prescribed(atts[j])

\* A name without an extension and an undeclared .png, both stored.
C17_Witness ==
    /\ pc = "done"
    /\ Tabular # {}
    /\ Len(paths) = 2
    /\ paths[1].name = "README" /\ paths[1].type = "application/octet-stream"
    /\ paths[2].name = "screenshot.png" /\ paths[2].type = "image/png"
    /\ Cardinality(kvs) = 2

\* The test cases below a node, each with its place in the document, the
\* titles of the suites above it and its spec's title.
RECURSIVE Cases(_, _, _)
Cases(n, path, pos) ==
    IF n.kind = "spec"
    THEN { [pos |-> Append(pos, i), path |-> path, specTitle |-> n.title, test |-> n.tests[i]]
             : i \in 1..Len(n.tests) }
    ELSE UNION { Cases(n.children[i], Append(path, n.title), Append(pos, i))
                   : i \in 1..Len(n.children) }

ReportCases(r) == UNION { Cases(r.suites[i], <<>>, <<i>>) : i \in 1..Len(r.suites) }

\* How many attempts the document declares before test case c.
AttemptsBefore(r, c) == Cardinality({ l \in ReportLeaves(r) : Before(l.pos, c.pos) })

\* C18: the k attempts of a test case come out as k outcomes in a row, the
\* a-th of them carrying the a-th attempt's result and attemptIndex a - 1.
C18_AttemptIndex ==
    \A c \in ReportCases(report) :
        \A a \in 1..Len(c.test.results) :
            LET at == AttemptsBefore(report, c) + a
            IN at <= Len(outcomes) =>
                  /\ outcomes[at].attemptIndex = a - 1
                  /\ outcomes[at].status = c.test.results[a].status
                  /\ outcomes[at].rawAttachments = c.test.results[a].attachments
                  /\ outcomes[at].projectName = c.test.projectName
                  /\ outcomes[at].specTitle = c.specTitle

\* One test case with three attempts: two failed, the last passed.
C18_Witness ==
    /\ pc = "walked"
    /\ Cardinality(ReportCases(report)) = 1
    /\ [i \in DOMAIN outcomes |-> outcomes[i].attemptIndex] = <<0, 1, 2>>
    /\ [i \in DOMAIN outcomes |-> outcomes[i].status] = <<"failed", "failed", "passed">>

\* The node d levels down the way to the place pos: a root suite, then a
\* child of it, and so on.
RECURSIVE NodeAt(_, _, _)
NodeAt(r, pos, d) ==
    IF d = 1 THEN r.suites[pos[1]] ELSE NodeAt(r, pos, d - 1).children[pos[d]]

\* C19: the suitePath of an outcome names the suites above its spec, the root
\* suite first and the spec's parent last, one title per suite and nothing
\* else: neither the spec's title nor the test's.
C19_SuitePath ==
    \A c \in ReportCases(report) :
        \A a \in 1..Len(c.test.results) :
            LET at == AttemptsBefore(report, c) + a
                depth == Len(c.pos) - 2
            IN at <= Len(outcomes) =>
                  /\ Len(outcomes[at].suitePath) = depth
                  /\ \A d \in 1..depth :
                        /\ NodeAt(report, c.pos, d).kind = "suite"
                        /\ outcomes[at].suitePath[d] = NodeAt(report, c.pos, d).title
                  /\ NodeAt(report, c.pos, depth + 1).kind = "spec"
                  /\ \A d \in 1..depth :
                        outcomes[at].suitePath[d] # NodeAt(report, c.pos, depth + 1).title

\* The suites "Login" and, below it, "Patient Search" above one spec, and a
\* spec right below a root suite.
C19_Witness ==
    /\ pc = "walked"
    /\ \E i \in DOMAIN outcomes : outcomes[i].suitePath = <<"Login", "Patient Search">>
    /\ \E i \in DOMAIN outcomes : outcomes[i].suitePath = <<"Patient Search">>

ResultsPushed == { i \in DOMAIN dataset : dataset[i].kind = "results" }

\* C20 (as claimed): once runTests has returned from a test run that
\* assigned global.__TEST_RESULTS__, the actor's process holds that value and,
\* from the results step on, the dataset holds exactly one results record.
C20_ResultsHandoff ==
    (TEST_RESULTS.test # Absent /\ pc \notin {"testProcess", "crashed"}) =>
        /\ TEST_RESULTS.main = TEST_RESULTS.test
        /\ pc # "results" => Cardinality(ResultsPushed) = 1
\* ------------------------------------------------------------------------
\* The orchestration of a run (both versions of the actor)
\* ------------------------------------------------------------------------
PreLaunch == {"storeTestCode", "updateConfig", "runTests"}
UploadedKeys == { paths[i].key : i \in DOMAIN paths }

\* C21: the order of a run. The test process is launched only with the test
\* code and the runner configuration on disk; the key-value store and the
\* dataset are written only once the launched test process has returned; the
\* tabular records are pushed with every attachment stored, and the store
\* never changes after that push; nothing happens after Actor.exit.
C21_OrchestrationOrder ==
    [][ /\ (pc # "testProcess" /\ pc' = "testProcess") =>
               (TestCodeFile \in fs /\ ConfigFile \in fs)
        /\ (kvs' # kvs \/ dataset' # dataset) =>
               (child # NotLaunched /\ pc \notin PreLaunch \cup {"testProcess"})
        /\ (Tabular' # Tabular) => (UploadedKeys \subseteq StoredKeys /\ kvs' = kvs)
        /\ (Tabular # {}) => (kvs' = kvs /\ pc' \in {"exit", "done"})
        /\ pc # "done"
        /\ (pc' = "done") => (pc = "exit")
      ]_vars

C21_Witness ==
    /\ pc = "done"
    /\ Tabular # {}
    /\ UploadedKeys # {}
    /\ UploadedKeys \subseteq StoredKeys
    /\ version = "part_000"

\* ------------------------------------------------------------------------
\* The locator strategies of the generated test
\* ------------------------------------------------------------------------
ClaimedResolvers == {"findAndClickSignIn", "findAndFillLoginForm", "findAndClickSubmit",
                     "findAndSearchPatient", "findAndClickPatient"}
AttemptsOf(f) == SelectSeq(test.attempts, LAMBDA a : a.fn = Resolvers[f])

\* C22: each of the five resolvers tries its strategies in list order: the
\* k-th attempt is strategy k, an attempt is followed by another only when it
\* threw or returned false, so none follows one that succeeded, and the
\* 'All ... strategies failed' error is raised exactly when every strategy
\* of the list was attempted and failed.
C22_StrategyOrder ==
    \A f \in DOMAIN Resolvers :
        Resolvers[f] \in ClaimedResolvers =>
            LET as == AttemptsOf(f)
            IN  /\ Len(as) <= Strategies[f]
                /\ \A k \in DOMAIN as :
                       /\ as[k].strategy = k
                       /\ k < Len(as) => as[k].result \in {"false", "threw"}
                /\ (test.error = AllFailedError[f]) <=>
                       /\ Len(as) = Strategies[f]
                       /\ \A k \in DOMAIN as : as[k].result \in {"false", "threw"}

C22_Witness ==
    /\ test.error = "All patient link strategies failed"
    /\ \E k \in DOMAIN AttemptsOf(6) : AttemptsOf(6)[k].result = "false"
    /\ \E k \in DOMAIN AttemptsOf(6) : AttemptsOf(6)[k].result = "threw"
    /\ Len(AttemptsOf(1)) = 3
    /\ AttemptsOf(1)[3].result = "true"

\* ------------------------------------------------------------------------
\* The screenshots of the test
\* ------------------------------------------------------------------------
\* C23 (as claimed): a screenshot the test has written lies at the path the
\* actor checks and uploads, so that once the screenshot steps are over
\* without a failure it is in the key-value store. Both paths are relative
\* to __dirname, the working directory the test process is given.
C23_ScreenshotPath ==
    \A i \in 1..2 :
        (child # NotLaunched /\ TestScreenshot(i) \in fs) =>
            /\ screenshotFiles[i] = TestScreenshot(i)
            /\ (pc \in {"htmlReport", "videos", "attachments", "await", "push", "done"}) =>
                   <<screenshotFiles[i]>> \in StoredKeys

\* ------------------------------------------------------------------------
\* A failing test process
\* ------------------------------------------------------------------------
TestRunFailed == \E i \in DOMAIN log : log[i].msg = "Error running tests"

\* C24: once runTests has logged the failure of the test process and
\* rethrown, the run is over: the key-value store holds nothing, the dataset
\* has received nothing, and the main function never gets to Actor.exit.
C24_FailedRunStops ==
    TestRunFailed =>
        /\ pc = "crashed"
        /\ kvs = {}
        /\ dataset = <<>>
        /\ issued = <<>>

C24_Witness ==
    /\ TestRunFailed
    /\ child # NotLaunched
    /\ TestScreenshot(2) \in fs
    /\ ReportFile \in fs
    /\ TEST_RESULTS.test # Absent

\* ------------------------------------------------------------------------
\* The end of the storage phase
\* ------------------------------------------------------------------------
\* C25 (as claimed): from the first storage step after the test process has
\* returned, the main function always gets to the end of Actor.exit.
C25_ExitReached == (pc = "screenshot1") ~> (pc = "done")

\* ------------------------------------------------------------------------
\* The tabular push and the uploads
\* ------------------------------------------------------------------------
AttachmentStored(a) == a.path \in fs /\ a.key \in StoredKeys

\* C26: the tabular push is all-or-nothing with respect to the uploads. The
\* push is called, and a tabular record reaches the dataset, only when every
\* attachment of the report had its file read and its blob stored; as soon
\* as one attachment's read or put has failed, the run pushes no tabular
\* record.
C26_AllOrNothing ==
    [][ /\ (pc' = "push" \/ Tabular' # Tabular) =>
               /\ LET collected == collectAttachmentPaths(report)
                  IN  \A i \in DOMAIN collected : AttachmentStored(collected[i])
               /\ Failed = {}
        /\ (Failed' # {}) => (Tabular' = {} /\ pc' # "push")
      ]_vars

C26_Witness ==
    /\ Failed # {}
    /\ Fulfilled # {}
    /\ pc \in {"done", "crashed"}
    /\ Tabular = {}
    /\ version = "main.ts"

\* ------------------------------------------------------------------------
\* Failures and missing files before the report is read
\* ------------------------------------------------------------------------
\* The keys of the earlier artifacts there are to store, in the order main
\* stores them.
EarlierArtifacts(files) ==
    (IF ScreenshotFiles[1] \in files THEN << <<ScreenshotFiles[1]>> >> ELSE <<>>)
    \o (IF ScreenshotFiles[2] \in files THEN << <<ScreenshotFiles[2]>> >> ELSE <<>>)
    \o (IF ReportFile \in files THEN << <<"report.html">> >> ELSE <<>>)
    \o (IF VideoDir \in files THEN << <<"video-recording.webm">> >> ELSE <<>>)
    \o (IF VideoDir \in files /\ SecondVideo \in files THEN << <<"video-retry.webm">> >> ELSE <<>>)

StorageError == \E i \in DOMAIN log : log[i].msg = "Error handling storage"

C28_KeysUnique ==
    /\ \A i, j \in DOMAIN paths : i # j => paths[i].key # paths[j].key
    /\ (paths # <<>> /\ Pending = {} /\ Failed = {}) =>
           Cardinality({ r \in kvs : r.key \in UploadedKeys }) = Len(paths)

\* ------------------------------------------------------------------------
\* The credentials handed to the test process
\* ------------------------------------------------------------------------
Credential(fromEnv, fromInput) ==
    IF fromEnv # Absent THEN fromEnv
    ELSE IF fromInput # Absent THEN fromInput
    ELSE ""

NoCredentialsWarned ==
    \E i \in DOMAIN log :
        log[i] = [level |-> "warning", msg |-> "No credentials found in environment variables or input"]

\* C29: the credential gate. In the earlier version runTests launches the
\* test process only with EMAIL and PASSWORD both in process.env; otherwise
\* it logs the error it raised and the run ends, the test process never
\* launched. In main.ts runTests always launches; the child's EMAIL and
\* PASSWORD are strings, the value of process.env when there is one, else the
\* value of the input, else the empty string; a warning is logged exactly
\* when one of the two is empty.
C29_CredentialGate ==
    /\ []((version = "part_000" /\ (env.EMAIL = Absent \/ env.PASSWORD = Absent)) =>
             /\ child = NotLaunched
             /\ pc \in PreLaunch \cup {"crashed"})
    /\ []((version = "part_000" /\ child # NotLaunched) =>
             (child.EMAIL = env.EMAIL /\ child.PASSWORD = env.PASSWORD))
    /\ []((version = "main.ts" /\ child # NotLaunched) =>
             /\ child.EMAIL = Credential(env.EMAIL, input.email)
             /\ child.PASSWORD = Credential(env.PASSWORD, input.password)
             /\ child.EMAIL # Absent /\ child.PASSWORD # Absent
             /\ NoCredentialsWarned <=> (child.EMAIL = "" \/ child.PASSWORD = ""))
    /\ [][ /\ (pc = "runTests" /\ version = "main.ts") =>
                  (pc' = "testProcess" /\ child' # NotLaunched)
           /\ (pc = "runTests" /\ version = "part_000") =>
                  IF env.EMAIL = Absent \/ env.PASSWORD = Absent
                  THEN /\ pc' = "crashed"
                       /\ log' = Append(log, [level |-> "error", msg |-> "Error running tests"])
                  ELSE pc' = "testProcess" /\ child' # NotLaunched
          ]_vars

C29_Witness ==
    /\ version = "main.ts"
    /\ pc = "testProcess"
    /\ env.EMAIL # Absent /\ input.email # Absent
    /\ child.EMAIL = env.EMAIL
    /\ env.PASSWORD = Absent /\ input.password = Absent
    /\ child.PASSWORD = ""
    /\ NoCredentialsWarned

====
